---- MODULE Spec2Model ----
(***************************************************************************)
(* Swimming Pool Designer (streamlit_app_Version2.py).                     *)
(*                                                                         *)
(* The script is re-executed top to bottom on every user interaction: an   *)
(* edit of one input field, or a click on "Generate Drawing".  One action  *)
(* of the model is one such execution.                                     *)
(*                                                                         *)
(* Numbers.  The script computes with floats; the model computes exactly   *)
(* on a fixed-point grid.  Horizontal dimensions (length, width,           *)
(* kids_zone_length, wall_thickness) are counted in 1/HMetre metres,       *)
(* vertical ones (depths, floor_thickness, soil_thickness) in 1/VMetre     *)
(* metres, volumes in the product unit.  All values of the model are       *)
(* exactly representable in these units.                                   *)
(***************************************************************************)
EXTENDS Integers, FiniteSets, TLC

HMetre == 40
VMetre == 10

HStep == HMetre \div 2
VStep == VMetre \div 2

\* Number of grid steps each input ranges over.
MaxLength == 2
MaxWidth == 1
MaxDepth == 2
MaxThickness == 1

VARIABLES
  inputs,            \* the eight values returned by the input fields (lines 14-21)
  kids_zone_length,  \* the name kids_zone_length after validation (line 29)
  advisories,        \* the st.warning calls of this run (lines 25, 28)
  button,            \* what st.button returned in this run (line 31)
  report,            \* the quantities computed in this run (lines 33-50), if any
  status,            \* "ok", or "failed" when the run stopped with an exception
  first_report,      \* history: the report of the first generate run on Probe
  clamped_since      \* history: a generate run clamped after first_report was taken

vars == <<inputs, kids_zone_length, advisories, button, report, status,
          first_report, clamped_since>>

Fields == {"length", "width", "depth_kids", "depth_adults", "kids_zone_length",
           "wall_thickness", "floor_thickness", "soil_thickness"}

Horizontal == {"length", "width", "kids_zone_length", "wall_thickness"}

Max2(a, b) == IF a >= b THEN a ELSE b

----------------------------------------------------------------------------
(* The input fields, lines 14-21: number_input(label, min, max, value, step) *)

MinValue(f) == 0

MaxValue(f, length) ==
  CASE f = "length"           -> 50 * HMetre
    [] f = "width"            -> 20 * HMetre
    [] f = "depth_kids"       -> 5 * VMetre
    [] f = "depth_adults"     -> 5 * VMetre
    [] f = "kids_zone_length" -> length
    [] f = "wall_thickness"   -> HMetre
    [] f = "floor_thickness"  -> VMetre
    [] f = "soil_thickness"   -> 5 * VMetre

\* max(1.0, length * 0.3); exact for every length that is a multiple of 10 units.
KidsZoneDefault(length) == Max2(HMetre, (3 * length) \div 10)

DefaultValue(f, length) ==
  CASE f = "length"           -> (29 * HMetre) \div 4
    [] f = "width"            -> (17 * HMetre) \div 4
    [] f = "depth_kids"       -> VMetre
    [] f = "depth_adults"     -> (3 * VMetre) \div 2
    [] f = "kids_zone_length" -> KidsZoneDefault(length)
    [] f = "wall_thickness"   -> HMetre \div 4
    [] f = "floor_thickness"  -> (3 * VMetre) \div 10
    [] f = "soil_thickness"   -> VMetre \div 2

\* number_input raises when the value it is given lies outside [min, max].
ValueOutOfRange(min_value, max_value, value) ==
  min_value > value \/ max_value < value

\* The fields created before line 18; they exist even in a run that fails there.
BeforeKidsZone == {"length", "width", "depth_kids", "depth_adults"}

----------------------------------------------------------------------------
(* Grid of values tried for each field *)

StepOf(f) == IF f \in Horizontal THEN HStep ELSE VStep

MaxIndex(f) ==
  CASE f = "length"           -> MaxLength
    [] f = "kids_zone_length" -> MaxLength + 1
    [] f = "width"            -> MaxWidth
    [] f \in {"depth_kids", "depth_adults"} -> MaxDepth
    [] OTHER                  -> MaxThickness

Grid(f) == {StepOf(f) * i : i \in 0..MaxIndex(f)}

\* What a user may type into a field: a grid value, or a negative number.
Entries(f) == Grid(f) \cup {0 - StepOf(f)}

----------------------------------------------------------------------------
(* Validation, lines 24-29 *)

DepthAdvisory(depth_kids, depth_adults) ==
  IF depth_kids > depth_adults THEN {"depth"} ELSE {}

ZoneAdvisory(kzl, length) ==
  IF kzl > length THEN {"kids_zone"} ELSE {}

depth_kids_kept_mut(depth_kids, depth_adults) ==
  IF depth_kids > depth_adults THEN depth_adults ELSE depth_kids

\* Lines 24-25 only warn: depth_kids goes on unchanged.
depth_kids_kept(depth_kids, depth_adults) == depth_kids

Clamp_none(kzl, length) == kzl

Clamp_inverted(kzl, length) == IF kzl < length THEN length ELSE kzl

\* Lines 27-29.
Clamp(kzl, length) == IF kzl > length THEN length ELSE kzl

Rebind_stale(old, new) == IF old < new THEN old ELSE new

\* Line 18 binds the name kids_zone_length anew in every run, whatever the
\* previous run left in it.
Rebind(old, new) == new

----------------------------------------------------------------------------
(* Derived geometry and quantities, lines 33-50 *)

outer_length(length, wall_thickness) == length + 2 * wall_thickness

outer_width_one_wall(width, wall_thickness) == width + wall_thickness

outer_width(width, wall_thickness) == width + 2 * wall_thickness

outer_depth(depth_adults, floor_thickness, soil_thickness) ==
  depth_adults + floor_thickness + soil_thickness

adults_zone_length_swapped(length, kzl) == Max2(0, kzl - length)

adults_zone_length(length, kzl) == Max2(0, length - kzl)

water_volume_m3(kzl, azl, width, depth_kids, depth_adults) ==
  (kzl * width * depth_kids) + (azl * width * depth_adults)

water_volume_l(m3) == m3 * 1000

excavation_volume_m3(ol, ow, od) == ol * ow * od

floor_concrete_m3(ol, ow, floor_thickness) == ol * ow * floor_thickness

inner_perimeter(length, width) == 2 * (length + width)

wall_concrete_m3(perimeter, wall_thickness, depth_adults, floor_thickness) ==
  perimeter * wall_thickness * (depth_adults + floor_thickness)

concrete_total_m3_minus(floor_m3, wall_m3) == floor_m3 - wall_m3

concrete_total_m3(floor_m3, wall_m3) == floor_m3 + wall_m3

NoReport == [generated |-> FALSE]

\* The body of "if st.button(...)", with kzl the validated kids_zone_length.
QuantityReport(in, kzl) ==
  LET dk  == depth_kids_kept(in.depth_kids, in.depth_adults)
      ol  == outer_length(in.length, in.wall_thickness)
      ow  == outer_width(in.width, in.wall_thickness)
      od  == outer_depth(in.depth_adults, in.floor_thickness, in.soil_thickness)
      azl == adults_zone_length(in.length, kzl)
      wv  == water_volume_m3(kzl, azl, in.width, dk, in.depth_adults)
      fc  == floor_concrete_m3(ol, ow, in.floor_thickness)
      wc  == wall_concrete_m3(inner_perimeter(in.length, in.width),
                              in.wall_thickness, in.depth_adults,
                              in.floor_thickness)
  IN [generated            |-> TRUE,
      kids_zone_length     |-> kzl,
      adults_zone_length   |-> azl,
      outer_length         |-> ol,
      outer_width          |-> ow,
      outer_depth          |-> od,
      water_volume_m3      |-> wv,
      water_volume_l       |-> water_volume_l(wv),
      excavation_volume_m3 |-> excavation_volume_m3(ol, ow, od),
      floor_concrete_m3    |-> fc,
      wall_concrete_m3     |-> wc,
      concrete_total_m3    |-> concrete_total_m3(fc, wc)]

----------------------------------------------------------------------------
(* One execution of the script *)

\* Lines 14-50 with the fields returning `in` and the button returning `clicked`.
ScriptRun(in, clicked) ==
  LET k0 == Rebind(kids_zone_length, in.kids_zone_length)
      k  == Clamp(k0, in.length)
  IN /\ inputs' = in
     /\ advisories' = DepthAdvisory(in.depth_kids, in.depth_adults)
                        \cup ZoneAdvisory(k0, in.length)
     /\ kids_zone_length' = k
     /\ button' = clicked
     /\ report' = IF clicked THEN QuantityReport(in, k) ELSE NoReport
     /\ status' = "ok"

\* The run stops at line 18: nothing below it is executed, and the fields
\* that were not created lose their values.
ScriptFails(in) ==
  /\ inputs' = [f \in Fields |->
                  IF f \in BeforeKidsZone THEN in[f]
                  ELSE DefaultValue(f, in.length)]
  /\ kids_zone_length' = KidsZoneDefault(in.length)
  /\ advisories' = {}
  /\ button' = FALSE
  /\ report' = NoReport
  /\ status' = "failed"

\* The inputs whose two generate runs are compared.
Probe ==
  [length |-> 2 * HStep, width |-> HStep, depth_kids |-> VStep,
   depth_adults |-> VStep, kids_zone_length |-> HStep,
   wall_thickness |-> HStep, floor_thickness |-> VStep,
   soil_thickness |-> VStep]

\* The calculator is supplied one new value; the script runs without a click.
\* kids_zone_length is supplied freely here, also above length.
Supply ==
  \E f \in Fields : \E v \in Grid(f) :
    /\ status = "ok"
    /\ ~ValueOutOfRange(MinValue(f), MaxValue(f, 50 * HMetre), v)
    /\ ScriptRun([inputs EXCEPT ![f] = v], FALSE)
    /\ UNCHANGED <<first_report, clamped_since>>

\* The user types v into field f of the form; the script runs without a click.
FormEdit ==
  \E f \in Fields : \E v \in Entries(f) :
    /\ status = "ok" \/ f \in BeforeKidsZone
    /\ ~ValueOutOfRange(MinValue(f), MaxValue(f, inputs.length), v)
    /\ LET in == [g \in Fields |->
                    IF g = f THEN v
                    ELSE IF g = "kids_zone_length"
                            /\ (status = "failed"
                                \/ (f = "length" /\ v # inputs.length))
                         THEN KidsZoneDefault(IF f = "length" THEN v
                                              ELSE inputs.length)
                         ELSE inputs[g]]
       IN IF ValueOutOfRange(MinValue("kids_zone_length"),
                             MaxValue("kids_zone_length", in.length),
                             DefaultValue("kids_zone_length", in.length))
          THEN ScriptFails(in)
          ELSE ScriptRun(in, FALSE)
    /\ UNCHANGED <<first_report, clamped_since>>

\* The user clicks "Generate Drawing": the script runs with the same inputs.
GenerateDrawing ==
  /\ status = "ok"
  /\ ScriptRun(inputs, TRUE)
  /\ first_report' = IF first_report = NoReport /\ inputs = Probe
                     THEN report' ELSE first_report
  /\ clamped_since' = (clamped_since
                       \/ (first_report # NoReport
                           /\ inputs.kids_zone_length > inputs.length))

----------------------------------------------------------------------------
(* Specifications *)

FirstRun(in) ==
  /\ inputs = in
  /\ kids_zone_length = Clamp(in.kids_zone_length, in.length)
  /\ advisories = DepthAdvisory(in.depth_kids, in.depth_adults)
                    \cup ZoneAdvisory(in.kids_zone_length, in.length)
  /\ button = FALSE
  /\ report = NoReport
  /\ status = "ok"
  /\ first_report = NoReport
  /\ clamped_since = FALSE

\* The calculator on supplied inputs: any grid values to begin with.
GridInputs ==
  [length : Grid("length"), width : Grid("width"),
   depth_kids : Grid("depth_kids"), depth_adults : Grid("depth_adults"),
   kids_zone_length : Grid("kids_zone_length"),
   wall_thickness : Grid("wall_thickness"),
   floor_thickness : Grid("floor_thickness"),
   soil_thickness : Grid("soil_thickness")]

Init == \E in \in GridInputs : FirstRun(in)

Next == Supply \/ GenerateDrawing

Spec == Init /\ [][Next]_vars

\* The form: the first run of the script, every field at its default.
FormInit ==
  FirstRun([f \in Fields |-> DefaultValue(f, DefaultValue("length", 0))])

FormNext == FormEdit \/ GenerateDrawing

FormSpec == FormInit /\ [][FormNext]_vars

----------------------------------------------------------------------------
(* Properties *)

\* The run at hand is a generate run that produced a report.
Generated == status = "ok" /\ button /\ report # NoReport

\* C1: for length > 0, width > 0, non-negative depths and kids_zone_length in
\* [0, length], the reported water volume is
\* kids_zone_length*width*depth_kids + (length - kids_zone_length)*width*depth_adults
\* and is not negative.
C1_WaterVolume ==
  (/\ status = "ok" /\ button
   /\ inputs.length > 0 /\ inputs.width > 0
   /\ inputs.depth_kids >= 0 /\ inputs.depth_adults >= 0
   /\ 0 <= inputs.kids_zone_length
   /\ inputs.kids_zone_length <= inputs.length)
  => /\ report # NoReport
     /\ report.water_volume_m3 =
          inputs.kids_zone_length * inputs.width * inputs.depth_kids
          + (inputs.length - inputs.kids_zone_length) * inputs.width
              * inputs.depth_adults
     /\ report.water_volume_m3 >= 0

C1_Witness ==
  /\ Generated
  /\ 0 < inputs.kids_zone_length
  /\ inputs.kids_zone_length < inputs.length
  /\ inputs.width > 0
  /\ 0 < inputs.depth_kids
  /\ inputs.depth_kids < inputs.depth_adults

\* C2: a kids_zone_length supplied above length is used as length everywhere
\* downstream: the reported kids zone is length, the adults zone is 0, the water
\* volume is length*width*depth_kids, and clamping the clamped value again
\* leaves it as it is.
C2_ClampToLength ==
  (status = "ok" /\ button /\ inputs.kids_zone_length > inputs.length)
  => /\ report # NoReport
     /\ kids_zone_length = inputs.length
     /\ report.kids_zone_length = inputs.length
     /\ report.adults_zone_length = 0
     /\ report.water_volume_m3 =
          inputs.length * inputs.width * inputs.depth_kids
     /\ Clamp(kids_zone_length, inputs.length) = kids_zone_length

C2_Witness ==
  /\ Generated
  /\ inputs.kids_zone_length > inputs.length
  /\ inputs.length > 0 /\ inputs.width > 0 /\ inputs.depth_kids > 0
  /\ inputs.depth_adults > 0
  /\ "kids_zone" \in advisories

\* C3: every report has kids_zone_length <= length and adults_zone_length >= 0,
\* whatever was supplied.
C3_ReportInvariant ==
  report # NoReport
  => /\ report.kids_zone_length <= inputs.length
     /\ report.adults_zone_length >= 0

C3_Witness ==
  /\ Generated
  /\ inputs.kids_zone_length > inputs.length
  /\ report.kids_zone_length <= inputs.length
  /\ report.adults_zone_length >= 0

\* C4: with depth_kids > depth_adults the run warns, still produces the report,
\* and every quantity is what the formulas give for the two depths as supplied.
C4_DepthWarningOnly ==
  (status = "ok" /\ button /\ inputs.depth_kids > inputs.depth_adults)
  => /\ "depth" \in advisories
     /\ report # NoReport
     /\ report.outer_depth =
          inputs.depth_adults + inputs.floor_thickness + inputs.soil_thickness
     /\ report.water_volume_m3 =
          kids_zone_length * inputs.width * inputs.depth_kids
          + report.adults_zone_length * inputs.width * inputs.depth_adults
     /\ report.water_volume_l = 1000 * report.water_volume_m3
     /\ report.excavation_volume_m3 =
          report.outer_length * report.outer_width * report.outer_depth
     /\ report.floor_concrete_m3 =
          report.outer_length * report.outer_width * inputs.floor_thickness
     /\ report.wall_concrete_m3 =
          2 * (inputs.length + inputs.width) * inputs.wall_thickness
            * (inputs.depth_adults + inputs.floor_thickness)
     /\ report.concrete_total_m3 =
          report.floor_concrete_m3 + report.wall_concrete_m3

C4_Witness ==
  /\ Generated
  /\ inputs.depth_kids > inputs.depth_adults
  /\ inputs.depth_adults > 0
  /\ kids_zone_length > 0 /\ inputs.width > 0
  /\ "depth" \in advisories

\* C5: the excavation volume is
\* (length + 2*wall)*(width + 2*wall)*(depth_adults + floor + soil); with wall,
\* floor and soil all 0 it is length*width*depth_adults and the concrete is 0.
C5_Excavation ==
  (status = "ok" /\ button)
  => /\ report # NoReport
     /\ report.excavation_volume_m3 =
          (inputs.length + 2 * inputs.wall_thickness)
          * (inputs.width + 2 * inputs.wall_thickness)
          * (inputs.depth_adults + inputs.floor_thickness
             + inputs.soil_thickness)
     /\ (inputs.wall_thickness = 0 /\ inputs.floor_thickness = 0
         /\ inputs.soil_thickness = 0)
        => /\ report.excavation_volume_m3 =
                inputs.length * inputs.width * inputs.depth_adults
           /\ report.concrete_total_m3 = 0

C5_Witness ==
  /\ Generated
  /\ inputs.wall_thickness > 0 /\ inputs.floor_thickness > 0
  /\ inputs.soil_thickness > 0
  /\ inputs.length > 0 /\ inputs.width > 0
  /\ inputs.depth_adults > 0

\* The concrete total of the report for `in`.
ConcreteOf(in) ==
  QuantityReport(in, Clamp(in.kids_zone_length, in.length)).concrete_total_m3

\* C6: the concrete total never decreases when wall_thickness alone, or
\* floor_thickness alone, is increased.
C6_ConcreteMonotone ==
  report # NoReport
  => /\ \A w \in Grid("wall_thickness") :
          w >= inputs.wall_thickness
          => ConcreteOf([inputs EXCEPT !.wall_thickness = w])
               >= report.concrete_total_m3
     /\ \A t \in Grid("floor_thickness") :
          t >= inputs.floor_thickness
          => ConcreteOf([inputs EXCEPT !.floor_thickness = t])
               >= report.concrete_total_m3

C6_Witness ==
  /\ Generated
  /\ inputs.wall_thickness = 0 /\ inputs.floor_thickness = 0
  /\ inputs.length > 0 /\ inputs.width > 0 /\ inputs.depth_adults > 0
  /\ \E w \in Grid("wall_thickness") :
       ConcreteOf([inputs EXCEPT !.wall_thickness = w])
         > report.concrete_total_m3
  /\ \E t \in Grid("floor_thickness") :
       ConcreteOf([inputs EXCEPT !.floor_thickness = t])
         > report.concrete_total_m3

\* C7: a run fails only when a negative length, width or depth was entered.
C7_OnlyNegativeInputsFail ==
  status = "failed"
  => \/ inputs.length < 0 \/ inputs.width < 0
     \/ inputs.depth_kids < 0 \/ inputs.depth_adults < 0

\* C8: two generate runs on equal inputs give equal reports, whatever runs came
\* between them.
C8_EqualInputsEqualReports ==
  (Generated /\ inputs = Probe /\ first_report # NoReport)
  => report = first_report

C8_Witness ==
  /\ Generated /\ inputs = Probe
  /\ first_report # NoReport
  /\ clamped_since

\* C9: for every length the form accepts, the form yields a kids_zone_length in
\* [0, length] and does not fail.
C9_FormKidsZoneInRange ==
  /\ status = "ok"
  /\ 0 <= inputs.kids_zone_length
  /\ inputs.kids_zone_length <= inputs.length

\* C10: in every report the excavation volume is at least the water volume.
C10_ExcavationHoldsWater ==
  report # NoReport
  => report.excavation_volume_m3 >= report.water_volume_m3

====
